---- MODULE Spec2Model ----
(***************************************************************************)
(* The PurchaseTracker service worker (src/sw.js).  The file holds two     *)
(* snapshots of the worker: the network-first one (lines 1-312, cache      *)
(* label purchase-tracker-smart-v1) and the cache-first one (lines         *)
(* 313-483, cache label purchase-tracker-v1).  Each snapshot is one worker *)
(* instance of the same scope; either may be deployed first.  The browser  *)
(* (CacheStorage, the worker lifecycle, the network) is the environment.   *)
(***************************************************************************)
EXTENDS Naturals, Sequences, FiniteSets, TLC

VARIABLES
    state,        \* worker -> lifecycle state of the instance
    skipWaiting,  \* worker -> self.skipWaiting() has been called
    install,      \* worker -> progress of the install handler's waitUntil chain
    activate,     \* worker -> progress of the activate handler's waitUntil chain
    caches,       \* CacheStorage: generations in creation order
    tasks,        \* slot -> one fetch event and the handler run it started
    msgOps,       \* slot -> one message event and the cache operation it started
    controller,   \* page -> the worker controlling it
    replies,      \* the CACHE_STATUS replies of the status queries handled back
                  \* to back, none of any other event in between (the last two)
    sync,         \* the latest sync event and what its handler posted to each page
    nFetch,       \* fetch events dispatched so far
    nMsg          \* CLEAR_CACHE messages dispatched so far

vars == <<state, skipWaiting, install, activate, caches, tasks, msgOps,
          controller, replies, sync, nFetch, nMsg>>

counters == <<nFetch, nMsg>>

----------------------------------------------------------------------------
(* Bounds *)

\* Fetch events dispatched in a behaviour.
MaxFetch == 1

\* CLEAR_CACHE messages dispatched in a behaviour; messages of the other
\* types delete nothing and are not limited.
MaxMsg == 2

----------------------------------------------------------------------------
(* Constants of the two snapshots *)

Workers == {"nf", "cf"}

CACHE_VERSION_smart == "purchase-tracker-smart-v1"
CACHE_VERSION_v1 == "purchase-tracker-v1"

CACHE_VERSION(w) == IF w = "nf" THEN CACHE_VERSION_smart ELSE CACHE_VERSION_v1

STATIC_CACHE_FILES ==
    {"/", "/index.html", "/manifest.json", "/icon-192.png", "/icon-512.png"}

\* A generation left behind by an earlier deployment ("there might be old
\* versions", line 80).
LegacyName == "purchase-tracker-v0"

\* Every label a generation can have.
Labels == {LegacyName, CACHE_VERSION_smart, CACHE_VERSION_v1}

Strategy(w) == IF w = "nf" THEN "network-first" ELSE "cache-first"

\* The message types each snapshot's switch has a case for.
HandledTypes(w) ==
    IF w = "nf"
    THEN {"SKIP_WAITING", "FORCE_UPDATE", "CLEAR_CACHE", "GET_CACHE_STATUS"}
    ELSE {"SKIP_WAITING", "CLEAR_CACHE"}

MessageTypes ==
    {"SKIP_WAITING", "FORCE_UPDATE", "CLEAR_CACHE", "GET_CACHE_STATUS", "PING"}

Pages == {"page1", "page2"}
NoWorker == "none"

----------------------------------------------------------------------------
(* Requests and responses *)

SelfOrigin == "https://app.example"
OtherOrigin == "https://cdn.example"

Requests ==
    { [method |-> "GET",  origin |-> SelfOrigin,  path |-> "/index.html",    mode |-> "navigate"],
      [method |-> "GET",  origin |-> SelfOrigin,  path |-> "/dashboard",     mode |-> "navigate"],
      [method |-> "GET",  origin |-> SelfOrigin,  path |-> "/manifest.json", mode |-> "cors"],
      [method |-> "GET",  origin |-> SelfOrigin,  path |-> "/app.js",        mode |-> "no-cors"],
      [method |-> "POST", origin |-> SelfOrigin,  path |-> "/app.js",        mode |-> "cors"],
      [method |-> "GET",  origin |-> OtherOrigin, path |-> "/app.js",        mode |-> "no-cors"] }

NoRequest == [method |-> "-", origin |-> "-", path |-> "-", mode |-> "-"]

NoResponse == [url |-> "-", status |-> 0, type |-> "-", rev |-> "-"]

\* The revisions of its content the origin server may be serving: the one
\* first deployed and a later one.
Revisions == {"rev1", "rev2"}

\* What the network can answer for a same-origin URL.
NetworkResponses(url) ==
    UNION { { [url |-> url, status |-> 200, type |-> "basic", rev |-> r],
              [url |-> url, status |-> 404, type |-> "basic", rev |-> r],
              [url |-> url, status |-> 200, type |-> "cors",  rev |-> r] } :
            r \in Revisions }

\* What a promise of the respondWith chain holds: nothing yet, a response that
\* came from the network, one that came out of generation gen, undefined (a
\* cache miss), or the network error the page gets.
Pending == [kind |-> "pending", resp |-> NoResponse, gen |-> "-"]
Undefined == [kind |-> "undefined", resp |-> NoResponse, gen |-> "-"]
NetworkError == [kind |-> "error", resp |-> NoResponse, gen |-> "-"]
FromNetwork(r) == [kind |-> "network", resp |-> r, gen |-> "-"]

\* respondWith(p): a promise that resolves to no Response gives the page a
\* network error.
Delivered(r) == IF r.kind = "undefined" THEN NetworkError ELSE r

----------------------------------------------------------------------------
(* CacheStorage *)

EmptyEntries == [u \in {} |-> NoResponse]

Names(cs) == { cs[i].name : i \in 1..Len(cs) }

\* caches.keys(): labels in creation order
Keys(cs) == [i \in 1..Len(cs) |-> cs[i].name]

OpenExisting(cs, name) == cs

\* caches.open(name): creates the generation when absent
Open(cs, name) ==
    IF name \in Names(cs) THEN cs
    ELSE Append(cs, [name |-> name, entries |-> EmptyEntries])

\* cache.put(request, response) on the generation called name
Put(cs, name, url, resp) ==
    [i \in 1..Len(cs) |->
        IF cs[i].name = name
        THEN [cs[i] EXCEPT !.entries =
                 [u \in (DOMAIN cs[i].entries) \cup {url} |->
                     IF u = url THEN resp ELSE cs[i].entries[u]]]
        ELSE cs[i]]

\* cache.addAll(urls): every url fetched and stored, in one batch
AddAll(cs, name, urls, rev) ==
    [i \in 1..Len(cs) |->
        IF cs[i].name = name
        THEN [cs[i] EXCEPT !.entries =
                 [u \in (DOMAIN cs[i].entries) \cup urls |->
                     IF u \in urls
                     THEN [url |-> u, status |-> 200, type |-> "basic", rev |-> rev]
                     ELSE cs[i].entries[u]]]
        ELSE cs[i]]

DeleteAll(cs, name) == << >>

\* caches.delete(name)
Delete(cs, name) == SelectSeq(cs, LAMBDA g : g.name # name)

Holders(cs, url) == { i \in 1..Len(cs) : url \in DOMAIN cs[i].entries }

First(S) == CHOOSE i \in S : \A j \in S : i <= j

\* caches.match(url) on the CacheStorage object: the generations are
\* searched in creation order and the first match is the answer.
MatchAll(cs, url) ==
    IF Holders(cs, url) = {}
    THEN Undefined
    ELSE [kind |-> "cache",
          resp |-> cs[First(Holders(cs, url))].entries[url],
          gen  |-> cs[First(Holders(cs, url))].name]

----------------------------------------------------------------------------
(* Handler state *)

IdleInstall == [pc |-> "idle", signal |-> "pending", seeded |-> "pending", orphaned |-> FALSE]
IdleActivate == [pc |-> "idle", pending |-> {}, failed |-> FALSE]
\* The Response objects of a handler run (the one fetch() resolved with and
\* its clone) and how often the body of each has been read.
Unread == [response |-> 0, clone |-> 0]

IdleTask ==
    [worker |-> NoWorker, req |-> NoRequest, pc |-> "idle", net |-> "pending",
     netResp |-> NoResponse, result |-> Pending, wr |-> "none", orphaned |-> FALSE,
     reads |-> Unread, given |-> "-"]
IdleMsg == [worker |-> NoWorker, type |-> "-", pc |-> "idle"]
NoReplies == << >>
NoSync == [worker |-> NoWorker, tag |-> "-", pc |-> "idle", posted |-> [p \in Pages |-> 0]]

\* A handler run is finished when its respondWith promise has settled (or
\* respondWith was never called) and no cache write of it is still pending.
Finished(t) == t.pc \in {"passthrough", "settled"} /\ t.wr \notin {"open", "put"}

\* Handler runs are followed one fetch event and one message event at a
\* time: a slot is taken by the next event once the run in it has finished.
Slots == {1}
MsgSlots == {1}

FreeSlot(k) ==
    /\ nFetch < MaxFetch
    /\ tasks[k].pc = "idle" \/ Finished(tasks[k])

FreeMsgSlot(k) == msgOps[k].pc = "idle"

Active(w) == state[w] \in {"activating", "activated"}
Other(w) == CHOOSE v \in Workers : v # w

\* A Cache handle obtained before its generation was deleted writes to a
\* generation CacheStorage no longer lists.
OrphanTasks(ts, name) ==
    [k \in Slots |->
        IF ts[k].wr = "put" /\ CACHE_VERSION(ts[k].worker) = name
        THEN [ts[k] EXCEPT !.orphaned = TRUE] ELSE ts[k]]

OrphanInstalls(ins, name) ==
    [w \in Workers |->
        IF ins[w].pc = "addAll" /\ CACHE_VERSION(w) = name
        THEN [ins[w] EXCEPT !.orphaned = TRUE] ELSE ins[w]]

Init ==
    /\ state = [w \in Workers |-> "parsed"]
    /\ skipWaiting = [w \in Workers |-> FALSE]
    /\ install = [w \in Workers |-> IdleInstall]
    /\ activate = [w \in Workers |-> IdleActivate]
    /\ caches \in { <<>>,
                    << [name |-> LegacyName,
                        entries |-> [u \in {"/index.html"} |->
                            [url |-> u, status |-> 200, type |-> "basic", rev |-> "rev0"]]] >> }
    /\ tasks = [k \in Slots |-> IdleTask]
    /\ msgOps = [k \in MsgSlots |-> IdleMsg]
    /\ controller = [p \in Pages |-> NoWorker]
    /\ replies = NoReplies
    /\ sync = NoSync
    /\ nFetch = 0
    /\ nMsg = 0

----------------------------------------------------------------------------
(* install *)

\* The promise handed to event.waitUntil: .then(log).catch(log) ends the
\* chain, so it is fulfilled whether seeding succeeded or not.
InstallSignal(seedOk) == "fulfilled"

\* The browser's reaction to the settled install promise.
AfterInstall(signal) == IF signal = "rejected" THEN "redundant" ELSE "installed"

OnInstallEventNoSkip(requested) == requested

\* The skip-waiting flag once the install listener has run: its first
\* statement is self.skipWaiting().
OnInstallEvent(requested) == TRUE

\* A new script is registered: the install event fires, the handler calls
\* skipWaiting() and starts caches.open(CACHE_VERSION).
Register(w) ==
    /\ state[w] = "parsed"
    /\ state[Other(w)] \notin {"installing", "installed", "activating"}
    /\ state' = [state EXCEPT ![w] = "installing"]
    /\ skipWaiting' = [skipWaiting EXCEPT ![w] = OnInstallEvent(@)]
    /\ install' = [install EXCEPT ![w].pc = "open"]
    /\ UNCHANGED <<tasks, activate, caches, msgOps, controller, counters>>
    /\ replies' = NoReplies
    /\ UNCHANGED sync

\* caches.open settles.
InstallOpen(w, ok) ==
    /\ install[w].pc = "open"
    /\ IF ok
       THEN /\ caches' = Open(caches, CACHE_VERSION(w))
            /\ install' = [install EXCEPT ![w].pc = "addAll"]
            /\ UNCHANGED state
       ELSE /\ install' = [install EXCEPT ![w].pc = "done", ![w].seeded = "failed",
                                          ![w].signal = InstallSignal(FALSE)]
            /\ state' = [state EXCEPT ![w] = AfterInstall(InstallSignal(FALSE))]
            /\ UNCHANGED caches
    /\ UNCHANGED <<tasks, skipWaiting, activate, msgOps, controller, counters>>
    /\ replies' = NoReplies
    /\ UNCHANGED sync

\* cache.addAll(STATIC_CACHE_FILES) settles; rev is what the server served.
InstallAddAll(w, ok, rev) ==
    /\ install[w].pc = "addAll"
    /\ caches' = IF ok /\ ~install[w].orphaned
                 THEN AddAll(caches, CACHE_VERSION(w), STATIC_CACHE_FILES, rev)
                 ELSE caches
    /\ install' = [install EXCEPT ![w].pc = "done", ![w].orphaned = FALSE,
                                  ![w].seeded = IF ok THEN "ok" ELSE "failed",
                                  ![w].signal = InstallSignal(ok)]
    /\ state' = [state EXCEPT ![w] = AfterInstall(InstallSignal(ok))]
    /\ UNCHANGED <<tasks, skipWaiting, activate, msgOps, controller, counters>>
    /\ replies' = NoReplies
    /\ UNCHANGED sync

----------------------------------------------------------------------------
(* activate *)

StaleNone(w, names) == {}

\* The labels the handler deletes: every enumerated one but its own.
Stale(w, names) == { n \in names : n # CACHE_VERSION(w) }

AfterDeletesIgnoreFailure(allOk) == "claim"

\* What follows Promise.all of the deletes: .then(() => clients.claim()) runs
\* when all are fulfilled; a rejection skips it and rejects the chain.
AfterDeletes(allOk) == IF allOk THEN "claim" ELSE "rejected"

\* The waiting worker becomes the active one: the previous active worker
\* turns redundant, the pages it controlled pass to the new one, and the
\* activate event fires (caches.keys() is started).
Activate(w) ==
    /\ state[w] = "installed"
    /\ state[Other(w)] # "activating"
    /\ skipWaiting[w] \/ \A p \in Pages : controller[p] = NoWorker
    /\ state' = [v \in Workers |->
                    IF v = w THEN "activating"
                    ELSE IF state[v] = "activated" THEN "redundant" ELSE state[v]]
    /\ controller' = [p \in Pages |->
                        IF controller[p] # NoWorker THEN w ELSE controller[p]]
    /\ activate' = [activate EXCEPT ![w].pc = "keys"]
    /\ UNCHANGED <<tasks, skipWaiting, install, caches, msgOps, counters>>
    /\ replies' = NoReplies
    /\ UNCHANGED sync

\* caches.keys() resolves; one caches.delete is started per stale label.
ActKeys(w) ==
    /\ activate[w].pc = "keys"
    /\ LET stale == Stale(w, Names(caches)) IN
       activate' = [activate EXCEPT
                       ![w].pending = stale,
                       ![w].pc = IF stale = {} THEN AfterDeletes(TRUE) ELSE "deleting"]
    /\ UNCHANGED <<tasks, state, skipWaiting, install, caches, msgOps, controller, counters>>
    /\ replies' = NoReplies
    /\ UNCHANGED sync

\* One caches.delete(cacheName) settles.
ActDelete(w, n, ok) ==
    /\ activate[w].pc \in {"deleting", "rejected"}
    /\ n \in activate[w].pending
    /\ caches' = IF ok THEN Delete(caches, n) ELSE caches
    /\ tasks' = IF ok THEN OrphanTasks(tasks, n) ELSE tasks
    /\ install' = IF ok THEN OrphanInstalls(install, n) ELSE install
    /\ LET left == activate[w].pending \ {n}
           pc == IF activate[w].pc = "rejected" THEN "rejected"
                 ELSE IF ~ok THEN AfterDeletes(FALSE)
                 ELSE IF left = {} THEN AfterDeletes(TRUE)
                 ELSE "deleting"
       IN /\ activate' = [activate EXCEPT ![w].pending = left, ![w].pc = pc,
                                          ![w].failed = @ \/ ~ok]
          \* a rejected waitUntil promise does not stop the activation
          /\ state' = IF pc = "rejected" /\ state[w] = "activating"
                      THEN [state EXCEPT ![w] = "activated"] ELSE state
    /\ UNCHANGED <<skipWaiting, msgOps, controller, counters>>
    /\ replies' = NoReplies
    /\ UNCHANGED sync

\* self.clients.claim() resolves: every open page is controlled by w.
ActClaim(w) ==
    /\ activate[w].pc = "claim"
    /\ controller' = [p \in Pages |-> w]
    /\ activate' = [activate EXCEPT ![w].pc = "done"]
    /\ state' = [state EXCEPT ![w] = "activated"]
    /\ UNCHANGED <<tasks, skipWaiting, install, caches, msgOps, counters>>
    /\ replies' = NoReplies
    /\ UNCHANGED sync

----------------------------------------------------------------------------
(* fetch *)

ShouldInterceptAnyOrigin(req) == req.method = "GET"

\* The two guards before respondWith: only same-origin GET is handled.
ShouldIntercept(req) == req.method = "GET" /\ req.origin = SelfOrigin

\* The promise chain respondWith gets starts with fetch() in the
\* network-first snapshot and with caches.match() in the cache-first one.
FirstStep(w) == IF Strategy(w) = "network-first" THEN "fetch" ELSE "match"

CacheableStatusOnly(response) == response.status = 200

\* The test that guards the cache write.
Cacheable(response) == response.status = 200 /\ response.type = "basic"

ResponseToCacheSame == "response"

\* The object handed to cache.put: responseToCache = response.clone().
ResponseToCache == "clone"

\* The object returned to respondWith: return response.  The page reads its
\* body.
Returned == "response"

\* A body can be read once.
Readable(reads, object) == reads[object] = 0

Read(reads, object) == [reads EXCEPT ![object] = @ + 1]

OnNetworkSuccessPreferCache(response, cached) ==
    IF cached.kind = "cache" THEN cached ELSE FromNetwork(response)

\* What the chain resolves to once fetch() is fulfilled: return response
\* (cached is what the store holds for the request at that moment).
OnNetworkSuccess(response, cached) == FromNetwork(response)

FallbackUrlRoot == "/"

\* The document a failed navigation falls back to.
FallbackUrl == "/index.html"

\* After fetch() rejected: network-first looks the request up; cache-first
\* (which already missed) goes to the navigation fallback or gives up.
AfterNetFailure(w, req) ==
    IF Strategy(w) = "network-first" THEN "match"
    ELSE IF req.mode = "navigate" THEN "matchIndex" ELSE "settled"

AfterMatchRevalidate(w, req, found) ==
    IF Strategy(w) = "cache-first" THEN "fetch"
    ELSE IF found.kind = "cache" THEN "settled"
    ELSE IF req.mode = "navigate" THEN "matchIndex" ELSE "settled"

\* After caches.match(event.request) resolved with found.
AfterMatch(w, req, found) ==
    IF found.kind = "cache" THEN "settled"
    ELSE IF Strategy(w) = "cache-first" THEN "fetch"
    ELSE IF req.mode = "navigate" THEN "matchIndex" ELSE "settled"

\* A fetch event reaches the worker controlling the page (or, for a
\* navigation, the active worker of the scope).
FetchEvent(w, req, k) ==
    /\ state[w] = "activated"
    /\ req.mode = "navigate" \/ \E p \in Pages : controller[p] = w
    /\ FreeSlot(k)
    /\ tasks' = [tasks EXCEPT ![k] =
                    [IdleTask EXCEPT !.worker = w, !.req = req,
                                     !.pc = IF ShouldIntercept(req)
                                            THEN FirstStep(w) ELSE "passthrough"]]
    /\ nFetch' = nFetch + 1
    /\ UNCHANGED <<state, skipWaiting, install, activate, caches, msgOps,
                   controller, nMsg>>
    /\ replies' = NoReplies
    /\ UNCHANGED sync

\* fetch(event.request) is fulfilled with response.
NetSuccess(k, response) ==
    /\ tasks[k].pc = "fetch"
    /\ response \in NetworkResponses(tasks[k].req.path)
    /\ tasks' = [tasks EXCEPT
                    ![k].net = "ok",
                    ![k].netResp = response,
                    ![k].result = Delivered(OnNetworkSuccess(response,
                                      MatchAll(caches, tasks[k].req.path))),
                    ![k].pc = "settled",
                    ![k].reads = Read(@, Returned),
                    ![k].given = IF Cacheable(response) THEN ResponseToCache ELSE "-",
                    ![k].wr = IF Cacheable(response) THEN "open" ELSE "none"]
    /\ UNCHANGED <<state, skipWaiting, install, activate, caches, msgOps,
                   controller, counters>>
    /\ replies' = NoReplies
    /\ UNCHANGED sync

\* fetch(event.request) is rejected.
NetFailure(k) ==
    /\ tasks[k].pc = "fetch"
    /\ LET next == AfterNetFailure(tasks[k].worker, tasks[k].req) IN
       tasks' = [tasks EXCEPT
                    ![k].net = "failed",
                    ![k].pc = next,
                    ![k].result = IF next = "settled" THEN Delivered(Undefined)
                                  ELSE Pending]
    /\ UNCHANGED <<state, skipWaiting, install, activate, caches, msgOps,
                   controller, counters>>
    /\ replies' = NoReplies
    /\ UNCHANGED sync

\* caches.match(event.request) resolves.
MatchRequest(k) ==
    /\ tasks[k].pc = "match"
    /\ LET found == MatchAll(caches, tasks[k].req.path)
           next == AfterMatch(tasks[k].worker, tasks[k].req, found)
       IN tasks' = [tasks EXCEPT
                       ![k].pc = next,
                       ![k].result = IF next = "settled" THEN Delivered(found)
                                     ELSE Pending]
    /\ UNCHANGED <<state, skipWaiting, install, activate, caches, msgOps,
                   controller, counters>>
    /\ replies' = NoReplies
    /\ UNCHANGED sync

\* caches.match('/index.html') resolves.
MatchIndex(k) ==
    /\ tasks[k].pc = "matchIndex"
    /\ tasks' = [tasks EXCEPT
                    ![k].pc = "settled",
                    ![k].result = Delivered(MatchAll(caches, FallbackUrl))]
    /\ UNCHANGED <<state, skipWaiting, install, activate, caches, msgOps,
                   controller, counters>>
    /\ replies' = NoReplies
    /\ UNCHANGED sync

AfterWriteChained(result, ok) == IF ok THEN result ELSE NetworkError

\* What the respondWith promise holds once a step of the cache write has
\* settled: the write's promise is neither returned nor awaited (return
\* response follows at once), so the same as before.
AfterWrite(result, ok) == result

\* The detached caches.open(CACHE_VERSION) settles; its callback calls
\* cache.put(event.request, responseToCache) and returns without waiting.
WriteOpen(k, ok) ==
    /\ tasks[k].wr = "open"
    /\ caches' = IF ok THEN Open(caches, CACHE_VERSION(tasks[k].worker)) ELSE caches
    /\ tasks' = [tasks EXCEPT ![k].wr = IF ok THEN "put" ELSE "failed",
                               ![k].result = AfterWrite(@, ok)]
    /\ UNCHANGED <<state, skipWaiting, install, activate, msgOps, controller, counters>>
    /\ replies' = NoReplies
    /\ UNCHANGED sync

\* cache.put settles: it stores what it read from the body of the object
\* it was given, and rejects when that body was used before.
WritePut(k, ok) ==
    /\ tasks[k].wr = "put"
    /\ LET stored == ok /\ Readable(tasks[k].reads, tasks[k].given) IN
       /\ caches' = IF stored /\ ~tasks[k].orphaned
                    THEN Put(caches, CACHE_VERSION(tasks[k].worker),
                             tasks[k].req.path, tasks[k].netResp)
                    ELSE caches
       /\ tasks' = [tasks EXCEPT ![k].wr = IF stored THEN "done" ELSE "failed",
                                  ![k].reads = IF stored THEN Read(@, tasks[k].given) ELSE @,
                                  ![k].result = AfterWrite(@, stored)]
    /\ UNCHANGED <<state, skipWaiting, install, activate, msgOps, controller, counters>>
    /\ replies' = NoReplies
    /\ UNCHANGED sync

----------------------------------------------------------------------------
(* message *)

\* What the switch starts for a message type.
Dispatch(w, type) ==
    IF type \notin HandledTypes(w) THEN "idle"
    ELSE IF type = "CLEAR_CACHE" THEN "delete"
    ELSE IF type = "GET_CACHE_STATUS" THEN "keys"
    ELSE "idle"

\* The messages that are counted: those whose case deletes a generation.
\* Every other message leaves the cache store as it is.
Clears(w, type) == Dispatch(w, type) = "delete"

\* The status queries: the messages whose case enumerates the generations.
Queries(w, type) == Dispatch(w, type) = "keys"

\* A page posts a message to the worker; the handler returns at once.
Message(w, type, k) ==
    /\ state[w] \in {"installing", "installed", "activating", "activated"}
    /\ FreeMsgSlot(k)
    /\ Clears(w, type) => nMsg < MaxMsg
    /\ msgOps' = [msgOps EXCEPT ![k] =
                     IF Dispatch(w, type) = "idle" THEN IdleMsg
                     ELSE [worker |-> w, type |-> type, pc |-> Dispatch(w, type)]]
    /\ skipWaiting' = IF type \in HandledTypes(w) \cap {"SKIP_WAITING", "FORCE_UPDATE"}
                      THEN [skipWaiting EXCEPT ![w] = TRUE] ELSE skipWaiting
    /\ nMsg' = IF Clears(w, type) THEN nMsg + 1 ELSE nMsg
    /\ replies' = IF Queries(w, type) THEN replies ELSE NoReplies
    /\ UNCHANGED <<tasks, state, install, activate, caches, controller, sync, nFetch>>

\* The caches.delete(CACHE_VERSION) of CLEAR_CACHE settles.
MsgDelete(k, ok) ==
    /\ msgOps[k].pc = "delete"
    /\ LET n == CACHE_VERSION(msgOps[k].worker) IN
       /\ caches' = IF ok THEN Delete(caches, n) ELSE caches
       /\ tasks' = IF ok THEN OrphanTasks(tasks, n) ELSE tasks
       /\ install' = IF ok THEN OrphanInstalls(install, n) ELSE install
    /\ msgOps' = [msgOps EXCEPT ![k] = IdleMsg]
    /\ UNCHANGED <<state, skipWaiting, activate, controller, counters>>
    /\ replies' = NoReplies
    /\ UNCHANGED sync

StatusReplyOwnOnly(w, cs) ==
    [type |-> "CACHE_STATUS", caches |-> << CACHE_VERSION(w) >>,
     currentVersion |-> CACHE_VERSION(w)]

\* The message posted on event.ports[0].
StatusReply(w, cs) ==
    [type |-> "CACHE_STATUS", caches |-> Keys(cs), currentVersion |-> CACHE_VERSION(w)]

\* The last two of a sequence of replies.
LastTwo(rs) == IF Len(rs) > 2 THEN SubSeq(rs, Len(rs) - 1, Len(rs)) ELSE rs

\* The caches.keys() of GET_CACHE_STATUS resolves and the reply is posted.
MsgKeys(k) ==
    /\ msgOps[k].pc = "keys"
    /\ replies' = LastTwo(Append(replies, StatusReply(msgOps[k].worker, caches)))
    /\ msgOps' = [msgOps EXCEPT ![k] = IdleMsg]
    /\ UNCHANGED <<tasks, state, skipWaiting, install, activate, caches, controller,
                   sync, counters>>

----------------------------------------------------------------------------
(* sync *)

SyncTags == {"sync-purchases", "sync-settings"}

\* self.clients.matchAll() with no options: the window clients this worker
\* controls.
MatchAllClients(w) == { p \in Pages : controller[p] = w }

\* What the listener starts for a tag: only sync-purchases gets a waitUntil.
OnSync(tag) == IF tag = "sync-purchases" THEN "matchAll" ELSE "done"

\* A sync event reaches the active worker.
SyncEvent(w, tag) ==
    /\ state[w] = "activated"
    /\ sync.pc # "matchAll"
    /\ sync' = [NoSync EXCEPT !.worker = w, !.tag = tag, !.pc = OnSync(tag)]
    /\ replies' = NoReplies
    /\ UNCHANGED <<state, skipWaiting, install, activate, caches, tasks, msgOps,
                   controller, counters>>

\* clients.matchAll() resolves; one SYNC_PURCHASES message is posted to each
\* client of the list and the handler is done.
SyncMatchAll ==
    /\ sync.pc = "matchAll"
    /\ sync' = [sync EXCEPT !.pc = "done",
                            !.posted = [p \in Pages |->
                                IF p \in MatchAllClients(sync.worker) THEN 1 ELSE 0]]
    /\ replies' = NoReplies
    /\ UNCHANGED <<state, skipWaiting, install, activate, caches, tasks, msgOps,
                   controller, counters>>

----------------------------------------------------------------------------
(* environment *)

\* An event of w still holds the worker open: its waitUntil or respondWith
\* promise has not settled.
Busy(w) ==
    \/ install[w].pc \in {"open", "addAll"}
    \/ activate[w].pc \in {"keys", "deleting", "claim"}
    \/ \E k \in Slots : tasks[k].worker = w /\ tasks[k].pc \in {"fetch", "match", "matchIndex"}
    \/ sync.worker = w /\ sync.pc = "matchAll"

\* Cache operations of w that no event waits for.
Detached(w) ==
    \/ \E k \in Slots : tasks[k].worker = w /\ tasks[k].wr \in {"open", "put"}
    \/ \E k \in MsgSlots : msgOps[k].worker = w /\ msgOps[k].pc \in {"delete", "keys"}
    \/ activate[w].pc = "rejected" /\ activate[w].pending # {}

\* The browser stops a worker no event holds open; what the worker had
\* started and nobody waited for is lost.
Terminate(w) ==
    /\ ~Busy(w)
    /\ Detached(w)
    /\ tasks' = [k \in Slots |->
                    IF tasks[k].worker = w /\ tasks[k].wr \in {"open", "put"}
                    THEN [tasks[k] EXCEPT !.wr = "torn"] ELSE tasks[k]]
    /\ msgOps' = [k \in MsgSlots |->
                    IF msgOps[k].worker = w /\ msgOps[k].pc \in {"delete", "keys"}
                    THEN IdleMsg ELSE msgOps[k]]
    /\ activate' = [activate EXCEPT ![w].pending = {}]
    /\ UNCHANGED <<state, skipWaiting, install, caches, controller, counters>>
    /\ replies' = NoReplies
    /\ UNCHANGED sync

----------------------------------------------------------------------------

Next ==
    \/ \E w \in Workers : Register(w)
    \/ \E w \in Workers, ok \in BOOLEAN : InstallOpen(w, ok)
    \/ \E w \in Workers, ok \in BOOLEAN, rev \in Revisions : InstallAddAll(w, ok, rev)
    \/ \E w \in Workers : Activate(w)
    \/ \E w \in Workers : ActKeys(w)
    \/ \E w \in Workers, n \in Labels, ok \in BOOLEAN : ActDelete(w, n, ok)
    \/ \E w \in Workers : ActClaim(w)
    \/ \E w \in Workers, req \in Requests, k \in Slots : FetchEvent(w, req, k)
    \/ \E k \in Slots, response \in UNION { NetworkResponses(r.path) : r \in Requests } :
          NetSuccess(k, response)
    \/ \E k \in Slots : NetFailure(k)
    \/ \E k \in Slots : MatchRequest(k)
    \/ \E k \in Slots : MatchIndex(k)
    \/ \E k \in Slots, ok \in BOOLEAN : WriteOpen(k, ok)
    \/ \E k \in Slots, ok \in BOOLEAN : WritePut(k, ok)
    \/ \E w \in Workers, type \in MessageTypes \ {"GET_CACHE_STATUS"}, k \in MsgSlots :
          Message(w, type, k)
    \/ \E k \in MsgSlots, ok \in BOOLEAN : MsgDelete(k, ok)
    \/ \E w \in Workers : Terminate(w)

\* The worker with pages that ask for no cache status, in a browser without
\* Background Sync ("not supported in all browsers yet", line 195).
Spec == Init /\ [][Next]_vars

NextStatus ==
    \/ Next
    \/ \E w \in Workers, k \in MsgSlots : Message(w, "GET_CACHE_STATUS", k)
    \/ \E k \in MsgSlots : MsgKeys(k)

\* The same with pages that also send GET_CACHE_STATUS.
SpecStatus == Init /\ [][NextStatus]_vars

NextSync ==
    \/ Next
    \/ \E w \in Workers, tag \in SyncTags : SyncEvent(w, tag)
    \/ SyncMatchAll

\* The same in a browser that supports Background Sync.
SpecSync == Init /\ [][NextSync]_vars

----------------------------------------------------------------------------
(* Properties *)

Entries(cs, name) ==
    IF name \in Names(cs)
    THEN cs[CHOOSE i \in 1..Len(cs) : cs[i].name = name].entries
    ELSE EmptyEntries

Uncacheable(r) == r.status # 200 \/ r.type # "basic"

\* C1: when the activate handler of an instance completes, the existing
\* generations are exactly one, labelled with the instance's CACHE_VERSION.
C1_SingleGenerationAfterActivate ==
    [][\A w \in Workers :
          (activate[w].pc # "done" /\ activate'[w].pc = "done")
              => Names(caches') = {CACHE_VERSION(w)}]_vars

\* C2: when seeding fails during install, the install event's completion
\* signal reports failure and the instance never becomes active.
C2_SeedFailureFailsInstall ==
    \A w \in Workers :
        install[w].seeded = "failed"
            => install[w].signal = "rejected" /\ ~Active(w)

\* C3: a response the fetch handler takes from the cache store comes from
\* the generation named by the handling instance's CACHE_VERSION.
C3_LookupInCurrentGenerationOnly ==
    \A k \in Slots :
        tasks[k].result.kind = "cache"
            => tasks[k].result.gen = CACHE_VERSION(tasks[k].worker)

\* C4: a network response with a status other than 200 or a type other than
\* basic starts no cache write, and no step of its request changes the store.
C4_UncacheableNeverPut ==
    [][\A k \in Slots :
          (tasks'[k].net = "ok" /\ Uncacheable(tasks'[k].netResp))
              => /\ tasks'[k].wr = "none"
                 /\ (tasks'[k] # tasks[k] => caches' = caches)]_vars

C4_Witness ==
    \E k \in Slots :
        /\ tasks[k].pc = "settled"
        /\ tasks[k].net = "ok"
        /\ tasks[k].netResp.status = 200
        /\ tasks[k].netResp.type = "cors"
        /\ tasks[k].wr = "none"
        /\ caches # <<>>

\* C5: a request that is not GET, or not of the worker's origin, is passed
\* through: no respondWith, no lookup, no cache write, the store unchanged.
C5_PassThrough ==
    [][\A k \in Slots :
          (tasks'[k].pc # "idle"
             /\ (tasks'[k].req.method # "GET" \/ tasks'[k].req.origin # SelfOrigin))
              => /\ tasks'[k].pc = "passthrough"
                 /\ tasks'[k].result = Pending
                 /\ tasks'[k].net = "pending"
                 /\ tasks'[k].wr = "none"
                 /\ (tasks'[k] # tasks[k] => caches' = caches)]_vars

C5_Witness ==
    \E k \in Slots :
        /\ tasks[k].pc = "passthrough"
        /\ tasks[k].req.method = "GET"
        /\ tasks[k].req.origin = OtherOrigin
        /\ Entries(caches, CACHE_VERSION(tasks[k].worker)) # EmptyEntries

\* The store is one generation that holds the root document and otherwise
\* nothing but seeded static assets, none of them under the request's URL.
OnlySeededRoot(cs, req) ==
    /\ Len(cs) = 1
    /\ "/index.html" \in DOMAIN cs[1].entries
    /\ DOMAIN cs[1].entries \subseteq STATIC_CACHE_FILES
    /\ req.path = "/index.html" \/ req.path \notin DOMAIN cs[1].entries

\* C6: with a store that holds nothing but the seeded root document, a
\* navigation whose network request failed is answered with that stored
\* root document.
C6_NavigationFallback ==
    [][\A k \in Slots :
          (/\ tasks[k].pc \in {"match", "matchIndex"}
           /\ tasks'[k].pc = "settled"
           /\ tasks[k].net = "failed"
           /\ tasks[k].req.mode = "navigate"
           /\ OnlySeededRoot(caches, tasks[k].req))
              => /\ tasks'[k].result.kind = "cache"
                 /\ tasks'[k].result.resp = caches[1].entries["/index.html"]]_vars

C6_Witness ==
    \E k \in Slots :
        /\ tasks[k].pc = "settled"
        /\ tasks[k].net = "failed"
        /\ tasks[k].req.path = "/dashboard"
        /\ Len(caches) = 1
        /\ DOMAIN caches[1].entries = STATIC_CACHE_FILES
        /\ tasks[k].result.kind = "cache"
        /\ tasks[k].result.resp = caches[1].entries["/index.html"]

\* C7: under network-first, when the network request failed, the lookup of
\* the request in the current generation decides: a hit is returned; a miss
\* on a request that is no navigation gives the page the failure.
C7_NetworkFailureBranches ==
    [][\A k \in Slots :
          (/\ Strategy(tasks[k].worker) = "network-first"
           /\ tasks[k].pc = "match"
           /\ tasks'[k].pc # "match")
              => LET cur == Entries(caches, CACHE_VERSION(tasks[k].worker))
                     url == tasks[k].req.path
                 IN /\ url \in DOMAIN cur
                        => /\ tasks'[k].result.kind = "cache"
                           /\ tasks'[k].result.resp = cur[url]
                    /\ (url \notin DOMAIN cur /\ tasks[k].req.mode # "navigate")
                        => tasks'[k].result = NetworkError]_vars

\* C8: under network-first, a fulfilled network request is answered with the
\* network response whatever the store holds, and a stored response is
\* returned only after the network request failed.
C8_NetworkFirstFreshness ==
    \A k \in Slots :
        Strategy(tasks[k].worker) = "network-first"
            => /\ tasks[k].net = "ok"
                   => /\ tasks[k].pc = "settled"
                      /\ tasks[k].result.kind = "network"
                      /\ tasks[k].result.resp = tasks[k].netResp
               /\ tasks[k].result.kind = "cache" => tasks[k].net = "failed"

C8_Witness ==
    \E k \in Slots :
        LET cur == Entries(caches, CACHE_VERSION(tasks[k].worker)) IN
        /\ Strategy(tasks[k].worker) = "network-first"
        /\ tasks[k].net = "ok"
        /\ tasks[k].wr = "open"
        /\ tasks[k].req.path \in DOMAIN cur
        /\ cur[tasks[k].req.path] # tasks[k].netResp
        /\ tasks[k].result.resp = tasks[k].netResp

\* C9: every cache operation a handler started keeps its event's completion
\* signal outstanding until it has finished, so none is ever torn down.
C9_OperationsTiedToEvent ==
    /\ \A k \in Slots :
          /\ tasks[k].wr \in {"open", "put"} => tasks[k].pc # "settled"
          /\ tasks[k].wr # "torn"
    /\ \A k \in MsgSlots : msgOps[k].pc \notin {"delete", "keys"}

\* C10: when the delete of a stale generation failed during activation, the
\* failure is ignored: once every delete has settled the handler completes
\* and the open pages are claimed.
C10_DeleteFailureIgnored ==
    \A w \in Workers :
        (activate[w].failed /\ activate[w].pending = {} /\ state[w] = "activated")
            => /\ activate[w].pc = "done"
               /\ \A p \in Pages : controller[p] = w

\* C11: handling GET_CACHE_STATUS changes no state: neither the arrival of
\* the query nor its reply changes the generations or their entries; the
\* reply lists every generation and the instance's CACHE_VERSION; and of two
\* queries with no other event in between the second reply is identical to
\* the first.
C11_StatusQueryPure ==
    [][\A k \in MsgSlots :
          /\ (msgOps[k].pc # "keys" /\ msgOps'[k].pc = "keys")
                => /\ caches' = caches
                   /\ replies' = replies
                   /\ UNCHANGED <<state, skipWaiting, install, activate, tasks, controller>>
          /\ (msgOps[k].pc = "keys" /\ replies' # NoReplies)
                => LET r == replies'[Len(replies')] IN
                   /\ caches' = caches
                   /\ UNCHANGED <<state, skipWaiting, install, activate, tasks, controller>>
                   /\ r.caches = [i \in 1..Len(caches) |-> caches[i].name]
                   /\ r.currentVersion = CACHE_VERSION(msgOps[k].worker)
                   /\ replies # NoReplies => r = replies[Len(replies)]]_vars

C11_Witness ==
    /\ Len(replies) = 2
    /\ Len(replies[2].caches) = 2
    /\ replies[2].currentVersion \in { replies[2].caches[i] : i \in 1..2 }

Deployed(w, cleared) ==
    /\ install[w].seeded = "ok"
    /\ activate[w].pc = "done"
    /\ ~activate[w].failed
    /\ nFetch = 0
    /\ nMsg = cleared

\* v1 is the only deployment so far.
FirstDeployed(v1) == Deployed(v1, 0) /\ state[Other(v1)] = "parsed"

\* v2 was deployed after v1 and has replaced it.
SecondDeployed(v2, cleared) ==
    /\ Deployed(v2, cleared)
    /\ Deployed(Other(v2), cleared)
    /\ state[v2] = "activated"
    /\ state[Other(v2)] = "redundant"

\* C13: for two deployments in turn, each seeded and then activated: after
\* the activation of the first the generation list is its label alone; after
\* the activation of the second the list is the second's label alone; and
\* when a CLEAR_CACHE sent to the second has deleted its generation the list
\* is empty.
C13_DeployTwiceThenClear ==
    [][/\ \A v1 \in Workers :
              FirstDeployed(v1)' => Len(caches') = 1 /\ caches'[1].name = CACHE_VERSION(v1)
       /\ \A v2 \in Workers :
              SecondDeployed(v2, 0)' => Len(caches') = 1 /\ caches'[1].name = CACHE_VERSION(v2)
       /\ \A v2 \in Workers, k \in MsgSlots :
              (/\ SecondDeployed(v2, 1)
               /\ msgOps[k].pc = "delete"
               /\ msgOps[k].worker = v2
               /\ msgOps'[k].pc = "idle"
               /\ CACHE_VERSION(v2) \notin Names(caches'))
                  => caches' = << >>]_vars

C13_Witness ==
    \E v2 \in Workers :
        /\ SecondDeployed(v2, 1)
        /\ \A k \in MsgSlots : msgOps[k].pc = "idle"
        /\ caches = << >>

\* C14: whatever became of the cache write of a fulfilled network request
\* (pending, done, failed at open or at put), the page has been answered,
\* and with the network response.
C14_WriteFailureNotSurfaced ==
    \A k \in Slots :
        (tasks[k].net = "ok" /\ tasks[k].wr # "none")
            => /\ tasks[k].pc = "settled"
               /\ tasks[k].result.kind = "network"
               /\ tasks[k].result.resp = tasks[k].netResp

C14_Witness ==
    \E k \in Slots :
        /\ Strategy(tasks[k].worker) = "cache-first"
        /\ tasks[k].net = "ok"
        /\ tasks[k].wr = "failed"
        /\ tasks[k].result.kind = "network"
        /\ CACHE_VERSION(tasks[k].worker) \in Names(caches)

\* C15: the handler of a sync event tagged sync-purchases posts exactly one
\* SYNC_PURCHASES message to every open page; the handler of a sync event
\* with another tag posts none; neither changes the cache store.
C15_SyncBroadcast ==
    [][/\ (sync.pc = "matchAll" /\ sync'.pc = "done")
             => /\ \A p \in Pages : sync'.posted[p] = 1
                /\ caches' = caches
       /\ (sync' # sync /\ sync'.tag # "sync-purchases")
             => /\ \A p \in Pages : sync'.posted[p] = 0
                /\ sync'.pc = "done"
                /\ caches' = caches
       /\ (sync' # sync /\ sync'.pc = "matchAll") => caches' = caches]_vars

\* C16: an instance that is installing or waiting has asked to skip the
\* wait, whether or not a SKIP_WAITING or FORCE_UPDATE message reached it,
\* and a waiting instance can be activated at once, also while the older
\* instance controls open pages.
C16_NeverHeldInWaiting ==
    \A w \in Workers :
        /\ state[w] \in {"installing", "installed"} => skipWaiting[w]
        /\ state[w] = "installed" => ENABLED Activate(w)

C16_Witness ==
    \E w \in Workers :
        /\ state[w] = "activating"
        /\ activate[w].pc = "keys"
        /\ state[Other(w)] = "redundant"
        /\ \A p \in Pages : controller[p] = w

\* C17: of a response that is both returned and stored, the body of the
\* returned object is read once, by the page, and the body of the stored
\* object once, by the store: no body is read twice, and the object handed
\* to the store has its body unread whatever the page has read; and what the
\* store then holds for the request is what the page was given.
C17_StoredAndReturnedIndependent ==
    [][\A k \in Slots :
          /\ tasks'[k].reads.response <= 1
          /\ tasks'[k].reads.clone <= 1
          /\ tasks'[k].net = "ok" => tasks'[k].reads.response = 1
          /\ (tasks[k].wr = "open" /\ tasks'[k].wr = "put")
                => /\ tasks'[k].given \in {"response", "clone"}
                   /\ tasks'[k].reads[tasks'[k].given] = 0
          /\ (tasks[k].wr = "put" /\ tasks'[k].wr \in {"done", "failed"})
                => /\ tasks'[k].wr = "done" \/ caches' = caches
                   /\ (tasks'[k].wr = "done" /\ ~tasks[k].orphaned)
                         => LET cur == Entries(caches', CACHE_VERSION(tasks[k].worker)) IN
                            /\ tasks[k].req.path \in DOMAIN cur
                            /\ cur[tasks[k].req.path] = tasks'[k].result.resp
                            /\ tasks'[k].reads = [response |-> 1, clone |-> 1]]_vars

C17_Witness ==
    \E k \in Slots :
        LET cur == Entries(caches, CACHE_VERSION(tasks[k].worker)) IN
        /\ tasks[k].wr = "done"
        /\ tasks[k].result.kind = "network"
        /\ tasks[k].reads = [response |-> 1, clone |-> 1]
        /\ tasks[k].req.path \in DOMAIN cur
        /\ cur[tasks[k].req.path] = tasks[k].result.resp
        /\ tasks[k].result.resp.rev = "rev2"

\* C18: under cache-first, when the cache store holds an entry for the
\* request at the lookup, a stored response for it is the answer, no network
\* request is issued and no cache write is started; the network request is
\* issued only when nothing is stored for the request.
C18_CacheFirstHit ==
    [][\A k \in Slots :
          (/\ Strategy(tasks[k].worker) = "cache-first"
           /\ tasks[k].pc = "match"
           /\ tasks'[k].pc # "match")
              => LET url == tasks[k].req.path
                     held == { i \in 1..Len(caches) : url \in DOMAIN caches[i].entries }
                 IN /\ held # {}
                        => /\ tasks'[k].pc = "settled"
                           /\ tasks'[k].result.kind = "cache"
                           /\ \E i \in held : tasks'[k].result.resp = caches[i].entries[url]
                           /\ tasks'[k].net = "pending"
                           /\ tasks'[k].wr = "none"
                           /\ caches' = caches
                    /\ tasks'[k].pc = "fetch" => held = {}
                    /\ held = {} => tasks'[k].pc = "fetch"]_vars

C18_Witness ==
    \E k \in Slots :
        /\ Strategy(tasks[k].worker) = "cache-first"
        /\ tasks[k].pc = "settled"
        /\ tasks[k].req.path = "/manifest.json"
        /\ tasks[k].result.kind = "cache"
        /\ tasks[k].result.gen = CACHE_VERSION(tasks[k].worker)
        /\ tasks[k].net = "pending"
        /\ tasks[k].wr = "none"

\* The step is one of a cache operation started by a handler of w.
Wrote(w) ==
    \/ install[w].pc \in {"open", "addAll"} /\ install'[w].pc # install[w].pc
    \/ activate'[w] # activate[w]
    \/ \E k \in Slots : tasks[k].worker = w /\ tasks'[k].wr # tasks[k].wr
    \/ \E k \in MsgSlots : msgOps[k].worker = w /\ msgOps'[k] # msgOps[k]

\* C19: every change of the cache store (seed, put, delete) is made by the
\* instance that is active at that moment, and an instance never changes the
\* generation another instance has written, the one under the other's label.
C19_OnlyActiveInstanceWrites ==
    [][caches' # caches
          => \A w \in Workers :
                Wrote(w)
                    => /\ state[w] \in {"activating", "activated"}
                       /\ LET n == CACHE_VERSION(Other(w)) IN
                          /\ n \in Names(caches) <=> n \in Names(caches')
                          /\ Entries(caches', n) = Entries(caches, n)]_vars

\* The store cs with resp added under url to the generation called name.
WithEntry(cs, name, url, resp) ==
    [u \in (DOMAIN Entries(cs, name)) \cup {url} |->
        IF u = url THEN resp ELSE Entries(cs, name)[u]]

\* C20 as stated: the cache write of any fetch that completes after the
\* generation was deleted by CLEAR_CACHE re-creates the generation: when its
\* put has completed, the generation exists and holds the response.
C20_AnyCompletedWriteRecreates ==
    [][\A k \in Slots :
          (/\ tasks[k].wr = "put"
           /\ tasks'[k].wr = "done"
           /\ state[Other(tasks[k].worker)] = "parsed")
              => LET own == CACHE_VERSION(tasks[k].worker) IN
                 /\ own \in Names(caches')
                 /\ tasks[k].req.path \in DOMAIN Entries(caches', own)]_vars

\* C20, amended: a cache write whose caches.open resolves after the
\* generation was deleted re-creates it, empty, and its put adds the
\* response and nothing else, so the generation holds only what was written
\* since the delete and none of the seeded assets; a write that had opened
\* the generation before the delete completes without changing the store,
\* and the generation stays deleted.
C20_WriteAfterClearRecreates ==
    [][\A k \in Slots :
          LET own == CACHE_VERSION(tasks[k].worker)
              url == tasks[k].req.path
          IN /\ (tasks[k].wr = "open" /\ tasks'[k].wr = "put")
                   => /\ own \in Names(caches')
                      /\ own \notin Names(caches)
                            => /\ Entries(caches', own) = EmptyEntries
                               /\ caches'[Len(caches')].name = own
                      /\ own \in Names(caches) => caches' = caches
             /\ (tasks[k].wr = "put" /\ tasks'[k].wr = "done")
                   => IF tasks[k].orphaned
                      THEN caches' = caches /\ own \notin Names(caches')
                      ELSE /\ own \in Names(caches)
                           /\ Names(caches') = Names(caches)
                           /\ Entries(caches', own) =
                                  WithEntry(caches, own, url, tasks[k].netResp)]_vars

C20_Witness ==
    \E k \in Slots :
        LET w == tasks[k].worker IN
        /\ tasks[k].wr = "done"
        /\ tasks[k].req.path = "/app.js"
        /\ state[w] = "activated"
        /\ state[Other(w)] = "parsed"
        /\ install[w].seeded = "ok"
        /\ nMsg = 1
        /\ \A m \in MsgSlots : msgOps[m].pc = "idle"
        /\ CACHE_VERSION(w) \in Names(caches)
        /\ DOMAIN Entries(caches, CACHE_VERSION(w)) = {"/app.js"}

\* Page p comes under the control of w in this step.
Gains(w, p) == controller'[p] = w /\ controller[p] # w

\* C21 as stated: clients.claim() is called only after every delete has been
\* fulfilled and never after a failed one, and at the moment a page comes
\* under the control of the new instance no generation with a label other
\* than its CACHE_VERSION exists.
C21_ControlledOnlyWhenStoreClean ==
    [][\A w \in Workers :
          /\ activate'[w].pc \in {"claim", "done"}
                => ~activate'[w].failed /\ activate'[w].pending = {}
          /\ \A p \in Pages :
                Gains(w, p) => \A n \in Names(caches') : n = CACHE_VERSION(w)]_vars

\* C21, amended: clients.claim() is called only after every delete the
\* handler started has been fulfilled, and never after a failed one.  A page
\* comes under the control of the new instance either by that claim or, if
\* the replaced instance controlled it, when the new instance starts
\* activating, before any delete.  At the claim the only generation that can
\* exist under another label is the replaced instance's own, re-created by
\* one of its cache writes.
C21_ClaimAfterAllDeletes ==
    [][\A w \in Workers :
          /\ activate'[w].pc \in {"claim", "done"}
                => ~activate'[w].failed /\ activate'[w].pending = {}
          /\ activate'[w].failed => activate'[w].pc = "rejected"
          /\ \A p \in Pages :
                Gains(w, p)
                    => \/ /\ activate[w].pc = "claim"
                          /\ activate'[w].pc = "done"
                       \/ /\ controller[p] = Other(w)
                          /\ state[w] = "installed"
                          /\ state'[w] = "activating"
          /\ (activate[w].pc = "claim" /\ activate'[w].pc = "done")
                => /\ \A p \in Pages : controller'[p] = w
                   /\ \A n \in Names(caches') \ {CACHE_VERSION(w)} :
                         /\ n = CACHE_VERSION(Other(w))
                         /\ \E k \in Slots :
                               /\ tasks[k].worker = Other(w)
                               /\ tasks[k].wr \in {"put", "done", "failed", "torn"}]_vars

C21_Witness ==
    \E w \in Workers :
        /\ activate[w].pc = "done"
        /\ ~activate[w].failed
        /\ state[Other(w)] = "redundant"
        /\ install[Other(w)].seeded = "ok"
        /\ \A p \in Pages : controller[p] = w
        /\ Names(caches) = {CACHE_VERSION(w)}
        /\ Entries(caches, CACHE_VERSION(w)) # EmptyEntries

====
